---- MODULE Spec2Model ----
(***************************************************************************)
(* Authentication and token lifecycle of the devimagehost backend:         *)
(* signup, verify-email, login, the bearer-token guard, account update,    *)
(* password change, forgot-password and reset-password.                    *)
(*                                                                         *)
(* Every handler is an async function; the runtime interleaves handlers at *)
(* their awaits.  Each action below is one run of a handler from one await *)
(* on the store to the next (or to its response).  Local computation that  *)
(* follows an await (bcrypt, token generation, mail dispatch, res.json) is *)
(* part of the step that the await resumes into.                           *)
(***************************************************************************)
EXTENDS Integers, Sequences, FiniteSets, TLC

\* ---------------------------------------------------------------- bounds
MaxResets   == 2   \* reset tokens forgot-password generates in one behaviour
MaxSessions == 2   \* session tokens login issues in one behaviour
MaxFine     == 1   \* clock instants: half seconds past a quarter hour
MaxCoarse   == 4   \* clock instants: quarter hours

\* ------------------------------------------------------------- constants
MsPerSecond     == 1000             \* Math.floor(Date.now() / 1000) in jsonwebtoken
HalfSecond      == MsPerSecond \div 2
ResetTokenTtlMs == 1000 * 60 * 15   \* new Date(Date.now() + 1000 * 60 * 15)
JwtExpiresInSec == 60 * 60          \* expiresIn: "1h"

\* --------------------------------------------------------------- values
Absent    == "absent"               \* a field the request does not carry (undefined)
Emails    == {"ann@x.com", "bob@x.com"}
Passwords == {"pw1", "pw2"}
Names     == {"Ann"}
Slots     == {1, 2}                 \* handlers that can be between awaits at once

NullTok   == 0                      \* SQL NULL in a token or expiry column
AbsentTok == -1                     \* request without a token (undefined)
BogusTok  == -2                     \* a string no generator ever returned

\* The instants the clock can show: k half seconds after j quarter hours.
TimePoints ==
  { j * ResetTokenTtlMs + k * HalfSecond : j \in 0..MaxCoarse, k \in 0..MaxFine }

VARIABLES
  users,      \* the User table: row i has id i (SERIAL, rows are never deleted)
  now,        \* Date.now(), in milliseconds
  reqs,       \* per slot: the handler suspended at an await, or idle
  tokCtr,     \* opaque tokens crypto.randomBytes has returned so far
  sessions,   \* session tokens returned by login, with the instant of issue
  last,       \* the response a step has just sent, until it is delivered
  signedUp,   \* emails for which a signup has created a user
  redeemed,   \* opaque tokens some request carrying them was answered 200 for
  replaced    \* reset tokens a later forgot-password has overwritten

vars == <<users, now, reqs, tokCtr, sessions, last, signedUp, redeemed, replaced>>

\* ------------------------------------------------------------ the store
DefaultIsVerified == FALSE

\* A create that marks the new row verified while it stores its token.
NewUserVerified(id, name, email, hashed, vtok) ==
  [ id |-> id, name |-> name, email |-> email, password |-> hashed,
    isVerified |-> TRUE, verifyToken |-> vtok,
    resetToken |-> NullTok, resetTokenExpiry |-> NullTok ]

NewUser(id, name, email, hashed, vtok) ==
  [ id |-> id, name |-> name, email |-> email, password |-> hashed,
    isVerified |-> DefaultIsVerified, verifyToken |-> vtok,
    resetToken |-> NullTok, resetTokenExpiry |-> NullTok ]

Ids == 1..Len(users)

\* prisma.user.findUnique({ where: { email } }): the ids of the rows it can return.
ByEmail(email) == { i \in Ids : users[i].email = email }

\* prisma.user.findFirst({ where: { verifyToken: token } }).  An undefined
\* value in a Prisma filter is no condition at all, and findFirst without an
\* orderBy returns whichever matching row the database yields first.
ByVerifyToken(token) ==
  IF token = AbsentTok THEN Ids
  ELSE { i \in Ids : users[i].verifyToken = token }

\* The lookup with resetTokenExpiry: { gt: new Date() }.
NotExpiredStrict(expiry, t) == expiry # NullTok /\ expiry > t

\* The expiry condition of the reset lookup: resetTokenExpiry: { gte: new Date() }.
\* A NULL expiry satisfies no comparison.
NotExpired(expiry, t) == expiry # NullTok /\ expiry >= t

\* prisma.user.findFirst({ where: { resetToken: token, resetTokenExpiry: { gte: new Date() } } })
ByResetToken(token, t) ==
  { i \in Ids : /\ (token = AbsentTok \/ users[i].resetToken = token)
                /\ NotExpired(users[i].resetTokenExpiry, t) }

\* bcrypt.hash(p, 10) and bcrypt.compare(p, h).
Hash(p) == <<"bcrypt", p>>
Compare(p, h) == h = Hash(p)

\* crypto.randomBytes(32).toString("hex"): a token never returned before.
FreshToken == tokCtr + 1

\* new Date(Date.now() + 1000 * 60 * 15)
ResetExpiry(t) == t + ResetTokenTtlMs

\* ------------------------------------------------------- session tokens
NoJwt   == [kind |-> "none",    id |-> 0, iat |-> 0, exp |-> 0, sig |-> FALSE]
Garbage == [kind |-> "garbage", id |-> 0, iat |-> 0, exp |-> 0, sig |-> FALSE]

\* Math.floor(Date.now() / 1000)
ClockTimestamp(t) == t \div MsPerSecond

\* jwt.sign({ id }, JWT_SECRET, { expiresIn: "1h" })
JwtSign(id, t) ==
  [kind |-> "jwt", id |-> id, iat |-> ClockTimestamp(t),
   exp |-> ClockTimestamp(t) + JwtExpiresInSec, sig |-> TRUE]

\* jwt.verify that still takes a token at the second of its exp claim.
JwtVerifyInclusive(tok, t) ==
  /\ tok.kind = "jwt"
  /\ tok.sig
  /\ ~(ClockTimestamp(t) > tok.exp)

\* jwt.verify(token, JWT_SECRET, cb): TRUE when cb gets no error.
JwtVerify(tok, t) ==
  /\ tok.kind = "jwt"
  /\ tok.sig
  /\ ~(ClockTimestamp(t) >= tok.exp)

\* A well-formed token for user i, valid for ever, signed with another key.
Forged(i) == [kind |-> "jwt", id |-> i, iat |-> 0,
              exp |-> ClockTimestamp((MaxCoarse + 2) * ResetTokenTtlMs), sig |-> FALSE]

\* The Authorization header as the list of its space-separated words
\* (no header: the empty list), and authHeader && authHeader.split(" ")[1].
Schemes == {"Bearer", "Basic"}

Headers ==
  {<<>>}
    \cup { <<sc>> : sc \in Schemes }
    \cup { <<sc, x.tok>> : sc \in Schemes, x \in sessions }
    \cup { <<sc, Forged(i)>> : sc \in Schemes, i \in Ids }
    \cup { <<sc, Garbage>> : sc \in Schemes }

BearerToken(hdr) == IF Len(hdr) >= 2 THEN hdr[2] ELSE NoJwt

\* authenticateToken: 401, 403, or 0 when it calls next().
GuardStatus(hdr, t) ==
  IF BearerToken(hdr) = NoJwt THEN 401
  ELSE IF ~JwtVerify(BearerToken(hdr), t) THEN 403
  ELSE 0

\* ------------------------------------------------------------- requests
Idle == [pc |-> "idle"]

Resp(kind, status, msg, tok, email, uid, jwt) ==
  [kind |-> kind, status |-> status, msg |-> msg, tok |-> tok,
   email |-> email, uid |-> uid, jwt |-> jwt]

NoResp == Resp("none", 0, "", NullTok, "", 0, NoJwt)

Free(s) == reqs[s].pc = "idle"

\* No response is held in `last`.  A step that answers leaves its response
\* there and Deliver takes it away; no handler reads it, and no other step is
\* taken in between, which loses no behaviour of the store.
Quiet == last = NoResp

\* A new request takes the lowest idle slot.
CanStart(s) == Quiet /\ Free(s) /\ \A s2 \in Slots : s2 < s => ~Free(s2)

\* The handler in slot s is suspended at the await named pc.
At(s, pc) == Quiet /\ reqs[s].pc = pc

\* Session tokens that handlers past their lookup may still issue.
PendingLogins  == Cardinality({ s \in Slots : reqs[s].pc = "login_sign" })

\* The tokens redeemed once a request carrying t is answered 200.
Redeem(t) == IF t = AbsentTok THEN redeemed ELSE redeemed \cup {t}

Init ==
  /\ users = <<>>
  /\ now = 0
  /\ reqs = [s \in Slots |-> Idle]
  /\ tokCtr = 0
  /\ sessions = {}
  /\ last = NoResp
  /\ signedUp = {}
  /\ redeemed = {}
  /\ replaced = {}

\* --------------------------------------------------------------- signup
\* SignupFind without the findUnique: the handler relies on User_email_key.
SignupFindNoLookup(s, name, email, password) ==
  /\ CanStart(s)
  /\ IF email = Absent \/ password = Absent
       THEN /\ last' = Resp("signup", 500, "validation", NullTok, email, 0, NoJwt)
            /\ UNCHANGED reqs
       ELSE /\ reqs' = [reqs EXCEPT ![s] =
                 [pc |-> "signup_create", name |-> name, email |-> email,
                  password |-> password]]
            /\ last' = NoResp
  /\ UNCHANGED <<users, now, tokCtr, sessions, signedUp, redeemed, replaced>>

\* POST /api/signup up to the await of prisma.user.create.
SignupFind(s, name, email, password) ==
  /\ CanStart(s)
  /\ IF email = Absent
       THEN \* findUnique without its unique field throws
            /\ last' = Resp("signup", 500, "validation", NullTok, email, 0, NoJwt)
            /\ UNCHANGED reqs
       ELSE IF ByEmail(email) # {}
       THEN /\ last' = Resp("signup", 400, "Email already registered", NullTok, email, 0, NoJwt)
            /\ UNCHANGED reqs
       ELSE IF password = Absent
       THEN \* bcrypt.hash(undefined, 10) throws
            /\ last' = Resp("signup", 500, "bcrypt", NullTok, email, 0, NoJwt)
            /\ UNCHANGED reqs
       ELSE /\ reqs' = [reqs EXCEPT ![s] =
                 [pc |-> "signup_create", name |-> name, email |-> email,
                  password |-> password]]
            /\ last' = NoResp
  /\ UNCHANGED <<users, now, tokCtr, sessions, signedUp, redeemed, replaced>>

\* SignupCreate that keeps the row only when the mail went out (create and
\* mail in one transaction).
SignupCreateAtomic(s, mailOk) ==
  /\ At(s, "signup_create")
  /\ LET r == reqs[s] IN
     IF r.name = Absent \/ ByEmail(r.email) # {}
       THEN /\ last' = Resp("signup", 500, "create", NullTok, r.email, 0, NoJwt)
            /\ UNCHANGED <<users, tokCtr, signedUp>>
       ELSE IF ~mailOk
       THEN /\ last' = Resp("signup", 500, "mail", NullTok, r.email, 0, NoJwt)
            /\ UNCHANGED <<users, tokCtr, signedUp>>
       ELSE /\ users' = Append(users,
                  NewUser(Len(users) + 1, r.name, r.email, Hash(r.password), FreshToken))
            /\ tokCtr' = tokCtr + 1
            /\ signedUp' = signedUp \cup {r.email}
            /\ last' = Resp("signup", 200, "Account created", FreshToken, r.email,
                            Len(users) + 1, NoJwt)
  /\ reqs' = [reqs EXCEPT ![s] = Idle]
  /\ UNCHANGED <<now, sessions, redeemed, replaced>>

\* prisma.user.create, transporter.sendMail and the response.
SignupCreate(s, mailOk) ==
  /\ At(s, "signup_create")
  /\ LET r == reqs[s] IN
     IF r.name = Absent \/ ByEmail(r.email) # {}
       THEN \* a required column is missing, or User_email_key is violated
            /\ last' = Resp("signup", 500, "create", NullTok, r.email, 0, NoJwt)
            /\ UNCHANGED <<users, tokCtr, signedUp>>
       ELSE /\ users' = Append(users,
                  NewUser(Len(users) + 1, r.name, r.email, Hash(r.password), FreshToken))
            /\ tokCtr' = tokCtr + 1
            /\ signedUp' = signedUp \cup {r.email}
            /\ last' = Resp("signup", IF mailOk THEN 200 ELSE 500,
                            IF mailOk THEN "Account created" ELSE "mail",
                            FreshToken, r.email, Len(users) + 1, NoJwt)
  /\ reqs' = [reqs EXCEPT ![s] = Idle]
  /\ UNCHANGED <<now, sessions, redeemed, replaced>>

\* --------------------------------------------------------- verify-email
\* GET /api/verify-email up to the await of prisma.user.update.
VerifyFind(s, token) ==
  /\ CanStart(s)
  /\ IF ByVerifyToken(token) = {}
       THEN /\ last' = Resp("verify", 400, "Invalid token", token, "", 0, NoJwt)
            /\ UNCHANGED reqs
       ELSE /\ \E i \in ByVerifyToken(token) :
                 reqs' = [reqs EXCEPT ![s] =
                            [pc |-> "verify_update", token |-> token, uid |-> i]]
            /\ last' = NoResp
  /\ UNCHANGED <<users, now, tokCtr, sessions, signedUp, redeemed, replaced>>

\* VerifyUpdate that leaves the token in the row.
VerifyUpdateKeepsToken(s) ==
  /\ At(s, "verify_update")
  /\ LET r == reqs[s] IN
       /\ users' = [users EXCEPT ![r.uid].isVerified = TRUE]
       /\ redeemed' = Redeem(r.token)
       /\ last' = Resp("verify", 200, "Email verified", r.token, "", r.uid, NoJwt)
  /\ reqs' = [reqs EXCEPT ![s] = Idle]
  /\ UNCHANGED <<now, tokCtr, sessions, signedUp, replaced>>

\* prisma.user.update({ where: { id }, data: { isVerified: true, verifyToken: null } })
VerifyUpdate(s) ==
  /\ At(s, "verify_update")
  /\ LET r == reqs[s] IN
       /\ users' = [users EXCEPT ![r.uid].isVerified = TRUE,
                                 ![r.uid].verifyToken = NullTok]
       /\ redeemed' = Redeem(r.token)
       /\ last' = Resp("verify", 200, "Email verified", r.token, "", r.uid, NoJwt)
  /\ reqs' = [reqs EXCEPT ![s] = Idle]
  /\ UNCHANGED <<now, tokCtr, sessions, signedUp, replaced>>

\* ---------------------------------------------------------------- login
\* LoginFind that checks the password before it looks at isVerified (the
\* login of the first version of the server, which had no isVerified).
LoginFindUnverified(s, email, password) ==
  /\ CanStart(s)
  /\ IF email = Absent
       THEN /\ last' = Resp("login", 500, "validation", NullTok, email, 0, NoJwt)
            /\ UNCHANGED reqs
       ELSE IF ByEmail(email) = {}
       THEN /\ last' = Resp("login", 400, "User not found", NullTok, email, 0, NoJwt)
            /\ UNCHANGED reqs
       ELSE LET u == users[CHOOSE i \in ByEmail(email) : TRUE] IN
            /\ Cardinality(sessions) + PendingLogins < MaxSessions
            /\ reqs' = [reqs EXCEPT ![s] =
                 [pc |-> "login_sign", email |-> email, password |-> password,
                  uid |-> u.id, hash |-> u.password]]
            /\ last' = NoResp
  /\ UNCHANGED <<users, now, tokCtr, sessions, signedUp, redeemed, replaced>>

\* POST /api/login up to the await of bcrypt.compare.
LoginFind(s, email, password) ==
  /\ CanStart(s)
  /\ IF email = Absent
       THEN /\ last' = Resp("login", 500, "validation", NullTok, email, 0, NoJwt)
            /\ UNCHANGED reqs
       ELSE IF ByEmail(email) = {}
       THEN /\ last' = Resp("login", 400, "User not found", NullTok, email, 0, NoJwt)
            /\ UNCHANGED reqs
       ELSE LET u == users[CHOOSE i \in ByEmail(email) : TRUE] IN
            IF ~u.isVerified
            THEN /\ last' = Resp("login", 403, "Please verify your email", NullTok,
                                 email, u.id, NoJwt)
                 /\ UNCHANGED reqs
            ELSE /\ Cardinality(sessions) + PendingLogins < MaxSessions
                 /\ reqs' = [reqs EXCEPT ![s] =
                      [pc |-> "login_sign", email |-> email, password |-> password,
                       uid |-> u.id, hash |-> u.password]]
                 /\ last' = NoResp
  /\ UNCHANGED <<users, now, tokCtr, sessions, signedUp, redeemed, replaced>>

\* bcrypt.compare against the row read above, jwt.sign and the response.
LoginSign(s) ==
  /\ At(s, "login_sign")
  /\ LET r == reqs[s] IN
     IF r.password = Absent
       THEN \* bcrypt.compare(undefined, hash) throws
            /\ last' = Resp("login", 500, "bcrypt", NullTok, r.email, r.uid, NoJwt)
            /\ UNCHANGED sessions
       ELSE IF ~Compare(r.password, r.hash)
       THEN /\ last' = Resp("login", 400, "Invalid credentials", NullTok, r.email,
                            r.uid, NoJwt)
            /\ UNCHANGED sessions
       ELSE /\ sessions' = sessions \cup
                    {[tok |-> JwtSign(r.uid, now), at |-> now, pwd |-> r.hash]}
            /\ last' = Resp("login", 200, "token", NullTok, r.email, r.uid,
                            JwtSign(r.uid, now))
  /\ reqs' = [reqs EXCEPT ![s] = Idle]
  /\ UNCHANGED <<users, now, tokCtr, signedUp, redeemed, replaced>>

\* ------------------------------------------------------------ the guard
Routes == {"pwd_find", "acct_update"}

\* Guard with jwt.decode in place of jwt.verify: the payload of any
\* well-formed token is taken as it is, signature and expiry unchecked.
GuardDecodeOnly(s, hdr, route) ==
  /\ CanStart(s)
  /\ IF BearerToken(hdr) = NoJwt \/ BearerToken(hdr).kind # "jwt"
       THEN /\ last' = Resp("guard", IF BearerToken(hdr) = NoJwt THEN 401 ELSE 403,
                            "rejected", NullTok, "", 0, BearerToken(hdr))
            /\ UNCHANGED reqs
       ELSE /\ reqs' = [reqs EXCEPT ![s] = [pc |-> route, user |-> BearerToken(hdr)]]
            /\ last' = Resp("guard", 0, "next", NullTok, "", BearerToken(hdr).id,
                            BearerToken(hdr))
  /\ UNCHANGED <<users, now, tokCtr, sessions, signedUp, redeemed, replaced>>

\* Guard that also refuses a token issued under a password its user no
\* longer has (revocation on password change).
GuardRevoking(s, hdr, route) ==
  /\ CanStart(s)
  /\ LET tok == BearerToken(hdr)
         st  == IF GuardStatus(hdr, now) # 0 THEN GuardStatus(hdr, now)
                ELSE IF \E x \in sessions :
                          x.tok = tok /\ users[tok.id].password # x.pwd
                THEN 403
                ELSE 0
     IN
     IF st # 0
       THEN /\ last' = Resp("guard", st, "rejected", NullTok, "", 0, tok)
            /\ UNCHANGED reqs
       ELSE /\ reqs' = [reqs EXCEPT ![s] = [pc |-> route, user |-> tok]]
            /\ last' = Resp("guard", 0, "next", NullTok, "", tok.id, tok)
  /\ UNCHANGED <<users, now, tokCtr, sessions, signedUp, redeemed, replaced>>

\* authenticateToken in front of PUT /api/account/password and PUT /api/account.
\* On next() the route's handler starts, with req.user the token's payload.
Guard(s, hdr, route) ==
  /\ CanStart(s)
  /\ LET st == GuardStatus(hdr, now) IN
     IF st # 0
       THEN /\ last' = Resp("guard", st, "rejected", NullTok, "", 0, BearerToken(hdr))
            /\ UNCHANGED reqs
       ELSE /\ reqs' = [reqs EXCEPT ![s] = [pc |-> route, user |-> BearerToken(hdr)]]
            /\ last' = Resp("guard", 0, "next", NullTok, "", BearerToken(hdr).id,
                            BearerToken(hdr))
  /\ UNCHANGED <<users, now, tokCtr, sessions, signedUp, redeemed, replaced>>

\* ------------------------------------------------------- account update
\* PUT /api/account with body { name, email }:
\* prisma.user.update({ where: { id: req.user.id }, data: { name, email } });
\* an undefined field is left as it is.
AcctUpdate(s, name, email) ==
  /\ At(s, "acct_update")
  /\ LET i == reqs[s].user.id IN
     IF email # Absent /\ ByEmail(email) \ {i} # {}
       THEN \* User_email_key is violated
            /\ last' = Resp("account", 500, "update", NullTok, email, i, NoJwt)
            /\ UNCHANGED users
       ELSE /\ users' = [users EXCEPT
                  ![i].name  = IF name  = Absent THEN @ ELSE name,
                  ![i].email = IF email = Absent THEN @ ELSE email]
            /\ last' = Resp("account", 200, "Conta atualizada", NullTok, email, i, NoJwt)
  /\ reqs' = [reqs EXCEPT ![s] = Idle]
  /\ UNCHANGED <<now, tokCtr, sessions, signedUp, redeemed, replaced>>

\* ------------------------------------------------------ password change
\* PwdFind without the bcrypt.compare of `current`.
PwdFindNoCompare(s, current, newPass) ==
  /\ At(s, "pwd_find")
  /\ LET r == reqs[s]
         u == users[r.user.id]
     IN
     IF newPass = Absent
       THEN /\ last' = Resp("password", 500, "bcrypt", NullTok, "", u.id, NoJwt)
            /\ reqs' = [reqs EXCEPT ![s] = Idle]
       ELSE /\ reqs' = [reqs EXCEPT ![s] =
                 [pc |-> "pwd_update", user |-> r.user, newPass |-> newPass]]
            /\ last' = NoResp
  /\ UNCHANGED <<users, now, tokCtr, sessions, signedUp, redeemed, replaced>>

\* PUT /api/account/password with body { current, newPass }, from the
\* findUnique to the await of the update.
PwdFind(s, current, newPass) ==
  /\ At(s, "pwd_find")
  /\ LET r == reqs[s]
         u == users[r.user.id]
     IN
     IF current = Absent
       THEN \* bcrypt.compare(undefined, hash) throws
            /\ last' = Resp("password", 500, "bcrypt", NullTok, "", u.id, NoJwt)
            /\ reqs' = [reqs EXCEPT ![s] = Idle]
       ELSE IF ~Compare(current, u.password)
       THEN /\ last' = Resp("password", 401, "Senha atual incorreta", NullTok, "",
                            u.id, NoJwt)
            /\ reqs' = [reqs EXCEPT ![s] = Idle]
       ELSE IF newPass = Absent
       THEN \* bcrypt.hash(undefined, 10) throws
            /\ last' = Resp("password", 500, "bcrypt", NullTok, "", u.id, NoJwt)
            /\ reqs' = [reqs EXCEPT ![s] = Idle]
       ELSE /\ reqs' = [reqs EXCEPT ![s] =
                 [pc |-> "pwd_update", user |-> r.user, newPass |-> newPass]]
            /\ last' = NoResp
  /\ UNCHANGED <<users, now, tokCtr, sessions, signedUp, redeemed, replaced>>

\* prisma.user.update({ where: { id: req.user.id }, data: { password: hashedPass } })
PwdUpdate(s) ==
  /\ At(s, "pwd_update")
  /\ LET r == reqs[s] IN
       /\ users' = [users EXCEPT ![r.user.id].password = Hash(r.newPass)]
       /\ last' = Resp("password", 200, "Senha alterada", NullTok, "", r.user.id, NoJwt)
  /\ reqs' = [reqs EXCEPT ![s] = Idle]
  /\ UNCHANGED <<now, tokCtr, sessions, signedUp, redeemed, replaced>>

\* ------------------------------------------------------ forgot-password
\* Reset tokens generated so far: every other token went into a user row.
ResetsIssued == tokCtr - Len(users)

\* POST /api/forgot-password up to the await of prisma.user.update.
ForgotFind(s, email) ==
  /\ CanStart(s)
  /\ IF email = Absent
       THEN /\ last' = Resp("forgot", 500, "validation", NullTok, email, 0, NoJwt)
            /\ UNCHANGED <<reqs, tokCtr>>
       ELSE IF ByEmail(email) = {}
       THEN /\ last' = Resp("forgot", 404, "User not found", NullTok, email, 0, NoJwt)
            /\ UNCHANGED <<reqs, tokCtr>>
       ELSE /\ ResetsIssued < MaxResets
            /\ tokCtr' = tokCtr + 1
            /\ reqs' = [reqs EXCEPT ![s] =
                 [pc |-> "forgot_update", email |-> email,
                  uid |-> CHOOSE i \in ByEmail(email) : TRUE,
                  resetToken |-> FreshToken, at |-> now,
                  resetTokenExpiry |-> ResetExpiry(now)]]
            /\ last' = NoResp
  /\ UNCHANGED <<users, now, sessions, signedUp, redeemed, replaced>>

\* prisma.user.update({ where: { id }, data: { resetToken, resetTokenExpiry } }),
\* transporter.sendMail and the response.
ForgotUpdate(s, mailOk) ==
  /\ At(s, "forgot_update")
  /\ LET r   == reqs[s]
         old == users[r.uid].resetToken
     IN
       /\ users' = [users EXCEPT ![r.uid].resetToken = r.resetToken,
                                 ![r.uid].resetTokenExpiry = r.resetTokenExpiry]
       /\ replaced' = IF old = NullTok THEN replaced ELSE replaced \cup {old}
       /\ last' = Resp("forgot", IF mailOk THEN 200 ELSE 500,
                       IF mailOk THEN "Password reset email sent" ELSE "mail",
                       r.resetToken, r.email, r.uid, NoJwt)
  /\ reqs' = [reqs EXCEPT ![s] = Idle]
  /\ UNCHANGED <<now, tokCtr, sessions, signedUp, redeemed>>

\* ------------------------------------------------------- reset-password
\* POST /api/reset-password up to the await of prisma.user.update.
ResetFind(s, token, newPass) ==
  /\ CanStart(s)
  /\ IF ByResetToken(token, now) = {}
       THEN /\ last' = Resp("reset", 400, "Invalid or expired token", token, "", 0, NoJwt)
            /\ UNCHANGED reqs
       ELSE IF newPass = Absent
       THEN \* bcrypt.hash(undefined, 10) throws
            /\ last' = Resp("reset", 500, "bcrypt", token, "", 0, NoJwt)
            /\ UNCHANGED reqs
       ELSE /\ \E i \in ByResetToken(token, now) :
                 reqs' = [reqs EXCEPT ![s] =
                            [pc |-> "reset_update", token |-> token, uid |-> i,
                             newPass |-> newPass]]
            /\ last' = NoResp
  /\ UNCHANGED <<users, now, tokCtr, sessions, signedUp, redeemed, replaced>>

\* prisma.user.update({ where: { id }, data: { password, resetToken: null,
\* resetTokenExpiry: null } }) and the response.
ResetUpdate(s) ==
  /\ At(s, "reset_update")
  /\ LET r == reqs[s] IN
       /\ users' = [users EXCEPT ![r.uid].password = Hash(r.newPass),
                                 ![r.uid].resetToken = NullTok,
                                 ![r.uid].resetTokenExpiry = NullTok]
       /\ redeemed' = Redeem(r.token)
       /\ last' = Resp("reset", 200, "Password reset successful", r.token, "",
                       r.uid, NoJwt)
  /\ reqs' = [reqs EXCEPT ![s] = Idle]
  /\ UNCHANGED <<now, tokCtr, sessions, signedUp, replaced>>

\* ---------------------------------------------------------------- clock
Tick(t) ==
  /\ Quiet
  /\ t > now
  /\ now' = t
  /\ UNCHANGED <<users, reqs, tokCtr, sessions, last, signedUp, redeemed, replaced>>

\* The response held in `last` has gone out.
Deliver ==
  /\ ~Quiet
  /\ last' = NoResp
  /\ UNCHANGED <<users, now, reqs, tokCtr, sessions, signedUp, redeemed, replaced>>

\* ------------------------------------------------------------- requests
TokenInputs == (1..tokCtr) \cup {AbsentTok, BogusTok}

SignupSteps ==
  \/ \E s \in Slots, n \in Names \cup {Absent}, e \in Emails \cup {Absent},
        p \in Passwords \cup {Absent} : SignupFind(s, n, e, p)
  \/ \E s \in Slots, ok \in BOOLEAN : SignupCreate(s, ok)
  \/ \E s \in Slots, t \in TokenInputs : VerifyFind(s, t)
  \/ \E s \in Slots : VerifyUpdate(s)

LoginSteps ==
  \/ \E s \in Slots, e \in Emails \cup {Absent}, p \in Passwords \cup {Absent} :
        LoginFind(s, e, p)
  \/ \E s \in Slots : LoginSign(s)

AccountSteps ==
  \/ \E s \in Slots, n \in Names \cup {Absent}, e \in Emails \cup {Absent} :
        AcctUpdate(s, n, e)

PasswordSteps ==
  \/ \E s \in Slots, c \in Passwords \cup {Absent}, p \in Passwords \cup {Absent} :
        PwdFind(s, c, p)
  \/ \E s \in Slots : PwdUpdate(s)

ForgotSteps ==
  \/ \E s \in Slots, e \in Emails \cup {Absent} : ForgotFind(s, e)
  \/ \E s \in Slots, ok \in BOOLEAN : ForgotUpdate(s, ok)

RedeemSteps ==
  \/ \E s \in Slots, t \in TokenInputs, p \in Passwords \cup {Absent} :
        ResetFind(s, t, p)
  \/ \E s \in Slots : ResetUpdate(s)

ResetSteps == ForgotSteps \/ RedeemSteps

\* The whole server.
Next ==
  \/ SignupSteps
  \/ LoginSteps
  \/ \E s \in Slots, h \in Headers, r \in Routes : Guard(s, h, r)
  \/ AccountSteps
  \/ PasswordSteps
  \/ ResetSteps
  \/ \E t \in TimePoints : Tick(t)
  \/ Deliver

Spec == Init /\ [][Next]_vars

\* Registration: signup, verify-email, login and the account update, from
\* the empty table.  None of them waits for the clock.
NextSignup ==
  \/ SignupSteps
  \/ LoginSteps
  \/ \E s \in Slots, h \in Headers : Guard(s, h, "acct_update")
  \/ AccountSteps
  \/ Deliver

SpecSignup == Init /\ [][NextSignup]_vars

\* Registration while the mail transport is down: as SpecSignup, every
\* sendMail of signup failing.
NextMailDown ==
  \/ \E s \in Slots, n \in Names \cup {Absent}, e \in Emails \cup {Absent},
        p \in Passwords \cup {Absent} : SignupFind(s, n, e, p)
  \/ \E s \in Slots : SignupCreate(s, FALSE)
  \/ \E s \in Slots, t \in TokenInputs : VerifyFind(s, t)
  \/ \E s \in Slots : VerifyUpdate(s)
  \/ LoginSteps
  \/ \E s \in Slots, h \in Headers : Guard(s, h, "acct_update")
  \/ AccountSteps
  \/ Deliver

SpecMailDown == Init /\ [][NextMailDown]_vars

\* The table after ann and bob have signed up with pw1 and verified, one
\* request after the other.
Registered ==
  [i \in 1..Cardinality(Emails) |->
     [NewUser(i, "Ann", IF i = 1 THEN "ann@x.com" ELSE "bob@x.com", Hash("pw1"), NullTok)
        EXCEPT !.isVerified = TRUE]]

InitRegistered ==
  /\ users = Registered
  /\ now = 0
  /\ reqs = [s \in Slots |-> Idle]
  /\ tokCtr = Len(users)
  /\ sessions = {}
  /\ last = NoResp
  /\ signedUp = Emails
  /\ redeemed = 1..Len(users)
  /\ replaced = {}

\* Sessions: login, the guard and the password handler behind it, over the
\* lifetime of a session token.  The password requests here set the
\* password to what `current` says it is, so the table stays as it is.
\* The instants around the issue of a session token and around its expiry,
\* and one in between (45 minutes).
SessionTimePoints ==
  { t \in TimePoints :
      \/ t % (JwtExpiresInSec * MsPerSecond) <= MaxFine * HalfSecond
      \/ t = 3 * ResetTokenTtlMs }

NextSession ==
  \/ LoginSteps
  \/ \E s \in Slots, h \in Headers : Guard(s, h, "pwd_find")
  \/ \E s \in Slots, c \in Passwords : PwdFind(s, c, c)
  \/ \E s \in Slots : PwdUpdate(s)
  \/ \E t \in SessionTimePoints : Tick(t)
  \/ Deliver

SpecSession == InitRegistered /\ [][NextSession]_vars

\* The password change: login, the guard and PUT /api/account/password with
\* every body, at one instant.
NextPassword ==
  \/ LoginSteps
  \/ \E s \in Slots, h \in Headers : Guard(s, h, "pwd_find")
  \/ PasswordSteps
  \/ Deliver

SpecPassword == InitRegistered /\ [][NextPassword]_vars

\* Password reset: forgot-password and reset-password around one expiry:
\* the instants 0 and 15 minutes and half a second after each.
ResetTimePoints ==
  { t \in TimePoints :
      t <= ResetTokenTtlMs + HalfSecond /\ t % ResetTokenTtlMs <= HalfSecond }

NextReset ==
  \/ ResetSteps
  \/ \E t \in ResetTimePoints : Tick(t)
  \/ Deliver

SpecReset == InitRegistered /\ [][NextReset]_vars

\* As SpecReset, every reset mail going out: each forgot-password that
\* finds its user is answered 200.
NextResetSent ==
  \/ \E s \in Slots, e \in Emails \cup {Absent} : ForgotFind(s, e)
  \/ \E s \in Slots : ForgotUpdate(s, TRUE)
  \/ RedeemSteps
  \/ \E t \in ResetTimePoints : Tick(t)
  \/ Deliver

SpecResetSent == InitRegistered /\ [][NextResetSent]_vars

\* Sessions against password changes: login, the guard, the password
\* change with every body and reset-password.  ann has asked for a reset at
\* instant 0 (forgot-password has stored token 3 for her).
ResetPending ==
  [Registered EXCEPT ![1].resetToken = Cardinality(Emails) + 1,
                     ![1].resetTokenExpiry = ResetExpiry(0)]

InitRevoke ==
  /\ users = ResetPending
  /\ now = 0
  /\ reqs = [s \in Slots |-> Idle]
  /\ tokCtr = Len(users) + 1
  /\ sessions = {}
  /\ last = NoResp
  /\ signedUp = Emails
  /\ redeemed = 1..Len(users)
  /\ replaced = {}

\* The whole quarters of an hour among the instants of SpecSession.
RevokeTimePoints == { t \in SessionTimePoints : t % ResetTokenTtlMs = 0 }

NextRevoke ==
  \/ LoginSteps
  \/ \E s \in Slots, h \in Headers : Guard(s, h, "pwd_find")
  \/ PasswordSteps
  \/ RedeemSteps
  \/ \E t \in RevokeTimePoints : Tick(t)
  \/ Deliver

SpecRevoke == InitRevoke /\ [][NextRevoke]_vars

\* Every route at one instant, next to a user who is already there: bob
\* has signed up and verified, ann has not signed up yet.  Every field of
\* a body may be missing; a password, where given, is pw1, the account
\* update leaves the email alone, and a reset is asked for bob.
InitOneUser ==
  /\ users = <<[NewUser(1, "Ann", "bob@x.com", Hash("pw1"), NullTok)
                  EXCEPT !.isVerified = TRUE]>>
  /\ now = 0
  /\ reqs = [s \in Slots |-> Idle]
  /\ tokCtr = 1
  /\ sessions = {}
  /\ last = NoResp
  /\ signedUp = {"bob@x.com"}
  /\ redeemed = {1}
  /\ replaced = {}

RoutePasswords == {"pw1", Absent}

NextRoutes ==
  \/ \E s \in Slots, n \in Names \cup {Absent}, e \in Emails \cup {Absent},
        p \in RoutePasswords : SignupFind(s, n, e, p)
  \/ \E s \in Slots, ok \in BOOLEAN : SignupCreate(s, ok)
  \/ \E s \in Slots, t \in TokenInputs : VerifyFind(s, t)
  \/ \E s \in Slots : VerifyUpdate(s)
  \/ \E s \in Slots, e \in Emails \cup {Absent}, p \in RoutePasswords :
        LoginFind(s, e, p)
  \/ \E s \in Slots : LoginSign(s)
  \/ \E s \in Slots, h \in Headers, r \in Routes : Guard(s, h, r)
  \/ \E s \in Slots, n \in Names \cup {Absent} : AcctUpdate(s, n, Absent)
  \/ \E s \in Slots, c \in RoutePasswords, p \in RoutePasswords : PwdFind(s, c, p)
  \/ \E s \in Slots : PwdUpdate(s)
  \/ \E s \in Slots, e \in {"bob@x.com", Absent} : ForgotFind(s, e)
  \/ \E s \in Slots, ok \in BOOLEAN : ForgotUpdate(s, ok)
  \/ \E s \in Slots, t \in TokenInputs, p \in RoutePasswords : ResetFind(s, t, p)
  \/ \E s \in Slots : ResetUpdate(s)
  \/ Deliver

SpecRoutes == InitOneUser /\ [][NextRoutes]_vars

\* Claims
\* ==================================================================
\* ----------------------------------------------------------------- C1
ValidSignup(n, e, p) == n \in Names /\ e \in Emails /\ p \in Passwords

\* The row a signup for (e, p) has just appended to the table.
CreatedBy(e, p) ==
  /\ Len(users') = Len(users) + 1
  /\ SubSeq(users', 1, Len(users)) = users
  /\ LET u == users'[Len(users')] IN
       /\ u.email = e
       /\ u.password = Hash(p)
       /\ u.isVerified = FALSE
       /\ u.verifyToken # NullTok
       /\ \A i \in Ids : users[i].verifyToken # u.verifyToken

\* A signup with valid inputs and an email no row holds goes on to create,
\* and its create appends exactly one unverified row with a verify token
\* (or none, answering 500, when the email was taken in between).
SignupCreatesOne ==
  /\ \A s \in Slots, n \in Names, e \in Emails, p \in Passwords :
        SignupFind(s, n, e, p) /\ ByEmail(e) = {} =>
          /\ reqs'[s].pc = "signup_create"
          /\ users' = users
  /\ \A s \in Slots, ok \in BOOLEAN :
        SignupCreate(s, ok) =>
          IF ByEmail(reqs[s].email) = {} /\ reqs[s].name # Absent
            THEN CreatedBy(reqs[s].email, reqs[s].password) /\ last'.status \in {200, 500}
            ELSE users' = users /\ last'.status = 500

\* The answer "400 Email already registered", with the table left as it is.
Conflict ==
  /\ last'.kind = "signup" /\ last'.status = 400
  /\ last'.msg = "Email already registered"
  /\ users' = users
  /\ reqs' = reqs

UniqueEmails == \A i, j \in Ids : users[i].email = users[j].email => i = j

\* C1 as stated: a signup for a fresh email creates exactly one unverified
\* user with a verify token, and every signup submitted after a signup for the
\* same email has completed is answered 400 "Email already registered" and
\* changes nothing.
C1_AsStated ==
  [][ /\ SignupCreatesOne
      /\ \A s \in Slots, n \in Names, e \in Emails, p \in Passwords :
            SignupFind(s, n, e, p) /\ e \in signedUp => Conflict
    ]_vars

\* C1 (amended): a signup for a fresh email creates exactly one unverified
\* user with a verify token, no two users ever share an email, and every
\* signup whose email some user holds when the handler looks it up is
\* answered 400 "Email already registered" and changes nothing.
C1_SignupConflict ==
  [][ /\ SignupCreatesOne
      /\ UniqueEmails'
      /\ \A s \in Slots, n \in Names, e \in Emails, p \in Passwords :
            SignupFind(s, n, e, p) /\ ByEmail(e) # {} => Conflict
    ]_vars

\* A second signup for ann's address was answered 400 while her unverified
\* row, the only one with that address, stays as signup made it.
C1_Witness ==
  /\ last.kind = "signup" /\ last.status = 400
  /\ last.email \in signedUp
  /\ \E i \in Ids :
       /\ ByEmail(last.email) = {i}
       /\ ~users[i].isVerified
       /\ users[i].verifyToken # NullTok

\* ----------------------------------------------------------------- C2
\* Every row but row i is as it was, and row i differs at most in the
\* fields named in `fields`.
OnlyChanged(i, fields) ==
  /\ Len(users') = Len(users)
  /\ \A j \in Ids :
       \A f \in DOMAIN users[j] :
         (j # i \/ f \notin fields) => users'[j][f] = users[j][f]

\* C2: a verify-email request carrying a token some row holds is answered
\* 200 and sets isVerified=true, verifyToken=null on that row alone; every
\* verify-email request carrying a token for which a 200 has already been
\* sent is answered 400 "Invalid token" and changes no row.
C2_VerifySingleUse ==
  [][ \A s \in Slots :
        /\ \A t \in 1..tokCtr :
              VerifyFind(s, t) =>
                IF t \in redeemed
                  THEN /\ last'.kind = "verify" /\ last'.status = 400
                       /\ last'.msg = "Invalid token"
                       /\ users' = users /\ reqs' = reqs
                  ELSE (\E i \in Ids : users[i].verifyToken = t) =>
                         /\ reqs'[s].pc = "verify_update"
                         /\ users[reqs'[s].uid].verifyToken = t
        /\ VerifyUpdate(s) /\ reqs[s].token # AbsentTok =>
              /\ last'.kind = "verify" /\ last'.status = 200
              /\ users'[reqs[s].uid].isVerified
              /\ users'[reqs[s].uid].verifyToken = NullTok
              /\ OnlyChanged(reqs[s].uid, {"isVerified", "verifyToken"})
    ]_vars

\* The token signup issued was verified (200) and, submitted again, has just
\* been answered 400; its user is verified and holds no token.
C2_Witness ==
  /\ last.kind = "verify" /\ last.status = 400
  /\ last.tok \in redeemed
  /\ \E i \in Ids : users[i].isVerified /\ users[i].verifyToken = NullTok

\* ----------------------------------------------------------------- C3
\* C3: a login for (email, password) is answered by the row with that email
\* as the handler reads it: none, 400 "User not found"; unverified, 403
\* whatever the password; verified and the password does not match the hash,
\* 400 "Invalid credentials"; verified and it matches, 200 with a session
\* token whose id is the row's id.  No step of a login changes a row.
C3_LoginOutcome ==
  [][ \A s \in Slots :
        /\ \A e \in Emails, p \in Passwords :
              LoginFind(s, e, p) =>
                /\ users' = users
                /\ IF ByEmail(e) = {}
                     THEN last'.status = 400 /\ last'.msg = "User not found"
                     ELSE \E i \in ByEmail(e) :
                            IF ~users[i].isVerified
                              THEN last'.status = 403 /\ reqs' = reqs
                              ELSE /\ reqs'[s].pc = "login_sign"
                                   /\ reqs'[s].uid = i
                                   /\ reqs'[s].hash = users[i].password
                                   /\ reqs'[s].password = p
        /\ LoginSign(s) /\ reqs[s].password # Absent =>
              /\ users' = users
              /\ IF reqs[s].hash = Hash(reqs[s].password)
                   THEN /\ last'.status = 200
                        /\ last'.jwt.id = reqs[s].uid
                        /\ JwtVerify(last'.jwt, now)
                        /\ last'.jwt \in { x.tok : x \in sessions' }
                   ELSE /\ last'.status = 400 /\ last'.msg = "Invalid credentials"
                        /\ sessions' = sessions
    ]_vars

\* A verified user has just logged in with the right password and got a
\* session token carrying that user's id.
C3_Witness ==
  /\ last.kind = "login" /\ last.status = 200
  /\ \E i \in ByEmail(last.email) :
       users[i].isVerified /\ last.jwt.id = i /\ last.jwt.kind = "jwt"

\* ----------------------------------------------------------------- C4
\* The session tokens login has issued.
IssuedTokens == { x.tok : x \in sessions }

\* tok was issued by login and the clock has not reached its exp claim.
ValidToken(tok) == tok \in IssuedTokens /\ ClockTimestamp(now) < tok.exp

\* The guard answers st itself and no handler starts.
Rejected(st) ==
  /\ last'.kind = "guard" /\ last'.status = st
  /\ reqs' = reqs
  /\ users' = users

\* The handler of the route starts, once, in slot s with req.user = tok.
Invoked(s, route, tok) ==
  /\ last'.kind = "guard" /\ last'.status = 0
  /\ reqs[s].pc = "idle"
  /\ reqs'[s].pc = route
  /\ reqs'[s].user.id = tok.id
  /\ \A s2 \in Slots \ {s} : reqs'[s2] = reqs[s2]
  /\ users' = users

Protected == {"pwd_find", "pwd_update", "acct_update"}

\* C4: a request to a protected route has one of three outcomes.  Its
\* Authorization header has no second word (no token): 401, no handler.  It
\* has one that login did not issue (malformed, signed with another key) or
\* whose expiry has passed: 403, no handler.  It has one that login issued
\* and that has not expired: the handler starts once, req.user.id being the
\* token's id.  A protected handler starts only so, and every running one
\* holds a token login issued for an existing user.
C4_GuardOutcome ==
  [][ /\ last'.kind = "guard" =>
            \A s \in Slots, h \in Headers, r \in Routes :
              Guard(s, h, r) =>
                IF Len(h) < 2 THEN Rejected(401)
                ELSE IF ~ValidToken(h[2]) THEN Rejected(403)
                ELSE Invoked(s, r, h[2])
      /\ \A s \in Slots :
            reqs'[s].pc \in Protected =>
              /\ reqs'[s].user \in IssuedTokens
              /\ reqs'[s].user.id \in Ids
              /\ \/ reqs[s].pc \in Protected /\ reqs[s].user = reqs'[s].user
                 \/ reqs[s].pc = "idle" /\ ValidToken(reqs'[s].user)
    ]_vars

\* The guard has just let a request through to the password handler, which
\* holds the token login issued and the id in it.
C4_Witness ==
  /\ last.kind = "guard" /\ last.status = 0
  /\ last.jwt \in IssuedTokens
  /\ \E s \in Slots :
       /\ reqs[s].pc = "pwd_find"
       /\ reqs[s].user = last.jwt
       /\ reqs[s].user.id = last.uid

\* ----------------------------------------------------------------- C5
\* One hour, in milliseconds.
SessionTtlMs == JwtExpiresInSec * MsPerSecond

\* No login record is dropped or altered, and every token expires 3600
\* seconds after the second it was issued in.
LifetimeFixed ==
  /\ sessions \subseteq sessions'
  /\ \A x \in sessions' :
        /\ x.tok.iat = ClockTimestamp(x.at)
        /\ x.tok.exp = x.tok.iat + JwtExpiresInSec

\* C5 as stated: the guard accepts a session token issued at T at every
\* time before T + 1 hour and answers 403 at every time after T + 1 hour,
\* and nothing changes that lifetime.
C5_AsStated ==
  [][ /\ LifetimeFixed
      /\ last'.kind = "guard" =>
          \A s \in Slots, h \in Headers, r \in Routes, x \in sessions :
            Len(h) >= 2 /\ h[2] = x.tok /\ Guard(s, h, r) =>
              /\ now < x.at + SessionTtlMs => Invoked(s, r, x.tok)
              /\ now > x.at + SessionTtlMs => Rejected(403)
    ]_vars

\* C5 (amended): the token carries its expiry in whole seconds, 3600 after
\* the second of its issue at T, and the guard accepts it exactly while the
\* clock's second is below that: at every time up to T + 1 hour - 1 second
\* it is accepted, at every time from T + 1 hour on it is answered 403 (in
\* the second between, it is already refused when T is not on a whole
\* second), and nothing changes that lifetime.
C5_SessionLifetime ==
  [][ /\ LifetimeFixed
      /\ last'.kind = "guard" =>
          \A s \in Slots, h \in Headers, r \in Routes, x \in sessions :
            Len(h) >= 2 /\ h[2] = x.tok /\ Guard(s, h, r) =>
              /\ IF ClockTimestamp(now) < ClockTimestamp(x.at) + JwtExpiresInSec
                   THEN Invoked(s, r, x.tok)
                   ELSE Rejected(403)
              /\ now <= x.at + SessionTtlMs - MsPerSecond => Invoked(s, r, x.tok)
              /\ now >= x.at + SessionTtlMs => Rejected(403)
    ]_vars

\* A token login issued has just been refused with 403, an hour or more
\* after its issue.
C5_Witness ==
  /\ last.kind = "guard" /\ last.status = 403
  /\ \E x \in sessions : x.tok = last.jwt /\ now >= x.at + SessionTtlMs

\* ---------------------------------------------------------------- C10
\* C10: PUT /api/account/password acts on the user the session token
\* names.  A `current` that does not match the stored hash is answered 401
\* and no row changes.  A matching one lets the request go on, and it is
\* answered 200 with the stored password set to the hash of newPass and
\* nothing else changed in any row.  A login then succeeds exactly with
\* the password whose hash is stored: with newPass, not with the old one.
C10_PasswordChange ==
  [][ \A s \in Slots :
        /\ \A c \in Passwords, p \in Passwords :
              PwdFind(s, c, p) =>
                /\ users' = users
                /\ IF users[reqs[s].user.id].password # Hash(c)
                     THEN /\ last'.kind = "password" /\ last'.status = 401
                          /\ reqs'[s] = Idle
                     ELSE /\ reqs'[s].pc = "pwd_update"
                          /\ reqs'[s].user = reqs[s].user
                          /\ reqs'[s].newPass = p
        /\ PwdUpdate(s) =>
              /\ last'.kind = "password" /\ last'.status = 200
              /\ users'[reqs[s].user.id].password = Hash(reqs[s].newPass)
              /\ \A q \in Passwords \ {reqs[s].newPass} :
                    users'[reqs[s].user.id].password # Hash(q)
              /\ OnlyChanged(reqs[s].user.id, {"password"})
        /\ \A e \in Emails, p \in Passwords :
              LoginFind(s, e, p) /\ reqs'[s].pc = "login_sign" =>
                reqs'[s].hash = users[reqs'[s].uid].password
        /\ LoginSign(s) /\ reqs[s].password # Absent =>
              (last'.status = 200 <=> reqs[s].hash = Hash(reqs[s].password))
    ]_vars

\* A user who logged in with pw1 and changed the password to pw2 has just
\* logged in against the hash of pw2, which is the stored one.
C10_Witness ==
  /\ last.kind = "login" /\ last.status = 200
  /\ last.uid \in Ids
  /\ users[last.uid].password = Hash("pw2")
  /\ \E x, y \in sessions :
       /\ x.tok = last.jwt /\ x.pwd = Hash("pw2")
       /\ y.tok.id = last.uid /\ y.pwd = Hash("pw1")

\* ----------------------------------------------------------------- C9
\* C9: whatever has happened to the account since, the guard lets every
\* token login issued through until the clock reaches the token's expiry,
\* also when its user's password is no longer the one it was issued under;
\* the password change and reset-password touch no issued token, and no
\* step withdraws one.
C9_NoRevocation ==
  [][ /\ last'.kind = "guard" =>
          \A s \in Slots, h \in Headers, r \in Routes, x \in sessions :
            Len(h) >= 2 /\ h[2] = x.tok /\ Guard(s, h, r)
              /\ ClockTimestamp(now) < ClockTimestamp(x.at) + JwtExpiresInSec =>
                Invoked(s, r, x.tok)
      /\ \A s \in Slots : PwdUpdate(s) \/ ResetUpdate(s) => sessions' = sessions
      /\ sessions \subseteq sessions'
    ]_vars

\* The guard has just let through a token whose user's password has been
\* changed since login issued it.
C9_Witness ==
  /\ last.kind = "guard" /\ last.status = 0
  /\ \E x \in sessions :
       /\ x.tok = last.jwt
       /\ users[x.tok.id].password # x.pwd
       /\ \A y \in sessions : y.tok = x.tok => y.pwd = x.pwd

\* ----------------------------------------------------------------- C6
\* Tokens a reset-password request may carry: every one issued so far and
\* one that never was.
CarriedTokens == (1..tokCtr) \cup {BogusTok}

\* A reset-password request has just started (its lookup is this step).
ResetStarts(s) ==
  reqs[s].pc = "idle" /\ (last'.kind = "reset" \/ reqs'[s].pc = "reset_update")

\* The answer 400 "Invalid or expired token", with nothing changed.
InvalidOrExpired ==
  /\ last'.kind = "reset" /\ last'.status = 400
  /\ last'.msg = "Invalid or expired token"
  /\ users' = users
  /\ reqs' = reqs

\* The request goes on to its update for the row that holds token t.
GoesOn(s, t, p) ==
  /\ reqs'[s].pc = "reset_update"
  /\ users[reqs'[s].uid].resetToken = t
  /\ reqs'[s].newPass = p
  /\ users' = users

\* Only a request that went past its lookup is answered 200.
SuccessOnlyAfterLookup ==
  last'.kind = "reset" /\ last'.status = 200 =>
    \E s \in Slots : reqs[s].pc = "reset_update" /\ ResetUpdate(s)

\* C6 as stated: a reset-password request with (token, newPass) gets past
\* its lookup only if some row holds the token with an expiry strictly
\* later than now, and is otherwise answered 400 "Invalid or expired token"
\* with no row changed.
C6_AsStated ==
  [][ /\ SuccessOnlyAfterLookup
      /\ \A s \in Slots :
            ResetStarts(s) =>
              \A t \in CarriedTokens, p \in Passwords :
                ResetFind(s, t, p) =>
                  IF \E i \in Ids : /\ users[i].resetToken = t
                                     /\ users[i].resetTokenExpiry > now
                    THEN GoesOn(s, t, p)
                    ELSE InvalidOrExpired
    ]_vars

\* C6 (amended): a reset-password request with (token, newPass) gets past
\* its lookup only if some row holds the token with an expiry not earlier
\* than now (at the expiry instant itself the token is still taken), and
\* is otherwise answered 400 "Invalid or expired token" with no row
\* changed: so for a token never issued, one already redeemed, one
\* replaced, and one whose expiry has passed.
C6_ResetAcceptance ==
  [][ /\ SuccessOnlyAfterLookup
      /\ \A s \in Slots :
            ResetStarts(s) =>
              \A t \in CarriedTokens, p \in Passwords :
                ResetFind(s, t, p) =>
                  /\ IF \E i \in Ids : /\ users[i].resetToken = t
                                        /\ users[i].resetTokenExpiry >= now
                       THEN GoesOn(s, t, p)
                       ELSE InvalidOrExpired
                  /\ t \in {BogusTok} \cup redeemed \cup replaced => InvalidOrExpired
    ]_vars

\* A request carrying a token that a row still holds, past its expiry, has
\* just been answered 400.
C6_Witness ==
  /\ last.kind = "reset" /\ last.status = 400
  /\ \E i \in Ids :
       /\ users[i].resetToken = last.tok
       /\ users[i].resetTokenExpiry < now

\* ----------------------------------------------------------------- C7
\* C7: forgot-password stores the token it generated with the expiry 15
\* minutes after its request; a reset-password request that carries a
\* token forgot-password has replaced is answered 400; and the stored
\* token is accepted until its expiry: a row loses it only to a
\* reset-password request that carries it or to a later forgot-password
\* for the same user (requests without a token left aside), and while it
\* is stored and not expired a request carrying it goes on.
C7_LatestTokenOnly ==
  [][ /\ \A s \in Slots :
            reqs[s].pc = "forgot_update" =>
              \A ok \in BOOLEAN :
                ForgotUpdate(s, ok) =>
                  /\ users'[reqs[s].uid].resetToken = reqs[s].resetToken
                  /\ users'[reqs[s].uid].resetTokenExpiry = reqs[s].at + ResetTokenTtlMs
      /\ \A s \in Slots :
            ResetStarts(s) =>
              \A t \in 1..tokCtr, p \in Passwords :
                ResetFind(s, t, p) =>
                  /\ t \in replaced => InvalidOrExpired
                  /\ (\E i \in Ids : /\ users[i].resetToken = t
                                      /\ users[i].resetTokenExpiry >= now)
                       => GoesOn(s, t, p)
      /\ \A i \in Ids :
            users[i].resetToken # NullTok /\ users'[i].resetToken # users[i].resetToken =>
              \E s \in Slots :
                \/ /\ reqs[s].pc = "reset_update"
                   /\ reqs[s].token \in {users[i].resetToken, AbsentTok}
                   /\ ResetUpdate(s)
                \/ /\ reqs[s].pc = "forgot_update"
                   /\ reqs[s].uid = i
                   /\ \E ok \in BOOLEAN : ForgotUpdate(s, ok)
    ]_vars

\* ----------------------------------------------------------------- C8
\* C8: at most one reset-password request carrying a given token is
\* answered 200 and changes the password: no update runs for a token for
\* which a 200 has already been sent.
C8_ResetSingleUse ==
  [][ \A s \in Slots :
        reqs[s].pc = "reset_update" /\ reqs[s].token # AbsentTok /\ ResetUpdate(s) =>
          reqs[s].token \notin redeemed
    ]_vars

\* ---------------------------------------------------------------- C11
\* C11: every row is in exactly one of two conditions: it holds a verify
\* token and is unverified, or it is verified and holds none.
C11_VerificationInvariant ==
  \A i \in Ids :
    /\ users[i].verifyToken # NullTok => ~users[i].isVerified
    /\ users[i].verifyToken = NullTok => users[i].isVerified

\* A verify-email request without a token has just been answered 200 for
\* a row, now verified and without token and holding a reset token, while
\* another row is unverified and holds its verify token.
C11_Witness ==
  /\ last.kind = "verify" /\ last.status = 200 /\ last.tok = AbsentTok
  /\ \E i, j \in Ids :
       /\ i = last.uid
       /\ users[i].isVerified /\ users[i].verifyToken = NullTok
       /\ users[i].resetToken # NullTok
       /\ ~users[j].isVerified /\ users[j].verifyToken # NullTok

\* ---------------------------------------------------------------- C12
\* C12: when signup has created the row and the mail then fails, the
\* request is answered 500 and is over (nothing is sent again), and the
\* unverified row with its verify token is in the table.  No step removes a
\* row, and a row keeps its email for as long as it is unverified.  A
\* signup for the email of such a row is answered 400 "Email already
\* registered": it creates no row and sends no mail.
C12_SignupNotAtomic ==
  [][ /\ \A s \in Slots :
            reqs[s].pc = "signup_create" /\ SignupCreate(s, FALSE)
              /\ reqs[s].name # Absent /\ ByEmail(reqs[s].email) = {} =>
                /\ last'.kind = "signup" /\ last'.status = 500
                /\ reqs'[s] = Idle
                /\ CreatedBy(reqs[s].email, reqs[s].password)
      /\ Len(users') >= Len(users)
      /\ \A i \in Ids : ~users[i].isVerified =>
            /\ users'[i].email = users[i].email
            /\ users'[i].id = users[i].id
      /\ \A s \in Slots :
            reqs[s].pc = "idle" /\ last'.kind = "signup" =>
              \A n \in Names, e \in Emails, p \in Passwords :
                SignupFind(s, n, e, p)
                  /\ (\E i \in Ids : users[i].email = e /\ ~users[i].isVerified)
                  => Conflict
    ]_vars

\* The mail transport being down, a signup for an address has just been
\* answered 400 because of the unverified row, token unspent, that an
\* earlier signup left behind when its mail failed.
C12_Witness ==
  /\ last.kind = "signup" /\ last.status = 400
  /\ \E i \in Ids :
       /\ users[i].email = last.email
       /\ ~users[i].isVerified
       /\ users[i].verifyToken \notin redeemed \cup {NullTok}

\* ---------------------------------------------------------------- C13
\* The request is answered 400 at once and nothing changes.
BadRequest(kind) ==
  /\ last'.kind = kind /\ last'.status = 400
  /\ users' = users
  /\ reqs' = reqs

\* C13: a request that leaves out a required input (signup: name, email,
\* password; verify-email: token; login: email, password; forgot-password:
\* email; reset-password: token, newPass; password change: current,
\* newPass) is answered 400 and changes no row; and no verify-email or
\* reset-password request without a token ever gets to its update.
C13_Validation ==
  [][ \A s \in Slots :
        /\ reqs[s].pc = "idle" =>
              /\ \A n \in Names \cup {Absent}, e \in Emails \cup {Absent},
                    p \in RoutePasswords :
                    Absent \in {n, e, p} /\ SignupFind(s, n, e, p) => BadRequest("signup")
              /\ VerifyFind(s, AbsentTok) => BadRequest("verify")
              /\ \A e \in Emails \cup {Absent}, p \in RoutePasswords :
                    Absent \in {e, p} /\ LoginFind(s, e, p) => BadRequest("login")
              /\ ForgotFind(s, Absent) => BadRequest("forgot")
              /\ \A t \in TokenInputs, p \in RoutePasswords :
                    (t = AbsentTok \/ p = Absent) /\ ResetFind(s, t, p) =>
                      BadRequest("reset")
        /\ reqs[s].pc = "pwd_find" =>
              \A c \in RoutePasswords, p \in RoutePasswords :
                Absent \in {c, p} /\ PwdFind(s, c, p) =>
                  /\ last'.kind = "password" /\ last'.status = 400
                  /\ users' = users
                  /\ reqs'[s] = Idle
        /\ reqs[s].pc = "verify_update" /\ VerifyUpdate(s) => reqs[s].token # AbsentTok
        /\ reqs[s].pc = "reset_update" /\ ResetUpdate(s) => reqs[s].token # AbsentTok
    ]_vars

\* ---------------------------------------------------------------- C14
\* C14: a reset token that forgot-password has stored stays in its row,
\* with its expiry, until a reset-password request carrying it is answered
\* 200 or a later forgot-password for the same user replaces it, and is
\* redeemable while it is there and not expired; the update of a
\* reset-password request that carries another token leaves it and its
\* expiry in place.  (Requests without a token are left aside.)
C14_NewerTokenSurvives ==
  [][ /\ \A i \in Ids :
            /\ users[i].resetToken # NullTok
            /\ \/ users'[i].resetToken # users[i].resetToken
               \/ users'[i].resetTokenExpiry # users[i].resetTokenExpiry
            => \E s \in Slots :
                 \/ /\ reqs[s].pc = "reset_update"
                    /\ reqs[s].uid = i
                    /\ reqs[s].token \in {users[i].resetToken, AbsentTok}
                    /\ ResetUpdate(s)
                 \/ /\ reqs[s].pc = "forgot_update"
                    /\ reqs[s].uid = i
                    /\ \E ok \in BOOLEAN : ForgotUpdate(s, ok)
      /\ \A s \in Slots :
            /\ reqs[s].pc = "reset_update"
            /\ reqs[s].token # AbsentTok
            /\ users[reqs[s].uid].resetToken \notin {reqs[s].token, NullTok}
            /\ ResetUpdate(s)
            => /\ users'[reqs[s].uid].resetToken = users[reqs[s].uid].resetToken
               /\ users'[reqs[s].uid].resetTokenExpiry = users[reqs[s].uid].resetTokenExpiry
      /\ \A s \in Slots :
            ResetStarts(s) =>
              \A t \in 1..tokCtr, p \in Passwords :
                ResetFind(s, t, p)
                  /\ (\E i \in Ids : /\ users[i].resetToken = t
                                      /\ users[i].resetTokenExpiry >= now)
                  => GoesOn(s, t, p)
    ]_vars
====
